---- MODULE Spec2Model ----
(***************************************************************************)
(* Model of backend/main.py: the FastAPI relay with its two endpoints,     *)
(* GET /api/health (health_check) and POST /api/chat (chat_endpoint, which *)
(* calls get_ai_response).                                                 *)
(*                                                                         *)
(* A text (message, completion content, response) is a sequence of         *)
(* segments.  The segments of a message and of a completion content are    *)
(* single characters; each of the four fixed fallback texts of lines       *)
(* 108-114 is written as one segment holding the whole literal.            *)
(***************************************************************************)
EXTENDS Integers, Sequences, FiniteSets, TLC

VARIABLES
    api_key,     \* os.getenv('GROQ_API_KEY')
    pc,          \* per request slot: "idle", "waiting" (inside requests.post), "done"
    msg,         \* per request slot: the message of the chat request
    wait,        \* per request slot: seconds spent inside requests.post
    calls,       \* per request slot: outbound calls issued by this invocation
    reply,       \* per request slot: what requests.post produced
    result,      \* per request slot: how get_ai_response ended
    healthResp   \* the last answer of GET /api/health

vars == <<api_key, pc, msg, wait, calls, reply, result, healthResp>>

\* ------------------------------------------------------------------ bounds

\* chat requests that can be in the server at the same time
NumReq == 2
\* a message is a concatenation of at most MaxFrags fragments
MaxFrags == 2

Req == 1..NumReq

\* ------------------------------------------------- characters and texts

LowerAlpha ==
    <<"a","b","c","d","e","f","g","h","i","j","k","l","m",
      "n","o","p","q","r","s","t","u","v","w","x","y","z">>

UpperAlpha ==
    <<"A","B","C","D","E","F","G","H","I","J","K","L","M",
      "N","O","P","Q","R","S","T","U","V","W","X","Y","Z">>

\* the characters str.strip() removes, among those the model uses
Whitespace == {" ", "\n", "\t"}

\* str.lower() on one character
LowerChar(c) ==
    IF \E i \in 1..Len(UpperAlpha) : UpperAlpha[i] = c
    THEN LowerAlpha[CHOOSE i \in 1..Len(UpperAlpha) : UpperAlpha[i] = c]
    ELSE c

\* str.lower()
Lower(s) == [i \in 1..Len(s) |-> LowerChar(s[i])]

\* the `in` operator on strings: sub occurs in s as a contiguous run
Contains(s, sub) ==
    \E i \in 0..(Len(s) - Len(sub)) : SubSeq(s, i + 1, i + Len(sub)) = sub

RECURSIVE LStrip(_)
LStrip(s) ==
    IF s # <<>> /\ Head(s) \in Whitespace THEN LStrip(Tail(s)) ELSE s

RECURSIVE RStrip(_)
RStrip(s) ==
    IF s # <<>> /\ s[Len(s)] \in Whitespace
    THEN RStrip(SubSeq(s, 1, Len(s) - 1))
    ELSE s

\* str.lstrip() in the place of str.strip()
StripLeftOnly(s) == LStrip(s)

\* str.strip()
Strip(s) == RStrip(LStrip(s))

KW_BUDGET == <<"b","u","d","g","e","t">>
KW_INVEST == <<"i","n","v","e","s","t">>
KW_DEBT == <<"d","e","b","t">>

BUDGET_TIP ==
    <<"Track your income and expenses. Use the 50/30/20 rule: 50% needs, 30% wants, 20% savings.">>
INVEST_TIP ==
    <<"Start with low-cost index funds. Invest regularly and don't try to time the market.">>
DEBT_TIP ==
    <<"Pay minimum on all debts, then focus extra payments on the highest interest rate debt first.">>
GENERIC_PROMPT ==
    <<"I can help with budgeting, investing, and debt management. What specific area interests you?">>

\* ------------------------------------------------------ JSON and Python

JNull == [ty |-> "null"]
JNum(n) == [ty |-> "num", n |-> n]
JStr(s) == [ty |-> "str", s |-> s]
JList(l) == [ty |-> "list", items |-> l]
JDict(m) == [ty |-> "dict", m |-> m]

\* the outcome of evaluating a Python expression: a value or a raised exception
Ok(v) == [ok |-> TRUE, val |-> v, exc |-> "none"]
Raise(e) == [ok |-> FALSE, val |-> JNull, exc |-> e]

\* v[k] with a string key k
GetItemKey(v, k) ==
    CASE v.ty = "dict" -> IF k \in DOMAIN v.m THEN Ok(v.m[k]) ELSE Raise("KeyError")
      [] OTHER -> Raise("TypeError")

\* v[0]
GetItemZero(v) ==
    CASE v.ty = "list" -> IF Len(v.items) > 0 THEN Ok(v.items[1]) ELSE Raise("IndexError")
      [] v.ty = "str" -> IF Len(v.s) > 0 THEN Ok(JStr(<<v.s[1]>>)) ELSE Raise("IndexError")
      [] v.ty = "dict" -> Raise("KeyError")
      [] OTHER -> Raise("TypeError")

\* v.strip()
StripMethod(v) ==
    IF v.ty = "str" THEN Ok(JStr(Strip(v.s))) ELSE Raise("AttributeError")

\* data["choices"][0]["message"]["content"].strip(): each step is applied to
\* the value of the step before it, and the first step that raises ends the chain
ExtractContent(data) ==
    LET choices == GetItemKey(data, "choices") IN
    IF ~choices.ok THEN choices ELSE
    LET first == GetItemZero(choices.val) IN
    IF ~first.ok THEN first ELSE
    LET message == GetItemKey(first.val, "message") IN
    IF ~message.ok THEN message ELSE
    LET content == GetItemKey(message.val, "content") IN
    IF ~content.ok THEN content ELSE
    StripMethod(content.val)

\* the classes `except Exception` catches, among those the try block can raise
ExceptionClasses ==
    {"ConnectionError", "Timeout", "JSONDecodeError",
     "KeyError", "IndexError", "TypeError", "AttributeError"}

\* ------------------------------------------------------- remote replies

\* requests.post either raises or returns a response with a status and a body
Raised(e) == [kind |-> e, status |-> 0, json |-> Raise(e)]
Response(status, json) == [kind |-> "response", status |-> status, json |-> json]

NoReply == [kind |-> "none", status |-> 0, json |-> Raise("none")]

\* {"choices": [{"message": {"content": c}}]}
Completion(c) ==
    JDict([choices |-> JList(<<JDict([message |-> JDict([content |-> c])])>>)])

\* timeout=10 of requests.post
TIMEOUT == 10

\* ------------------------------------------------------ get_ai_response

\* how get_ai_response ends: a return statement (its line and the text it
\* returns) or an exception that leaves the function
Returned(line, text) == [out |-> "return", line |-> line, text |-> text, exc |-> "none"]
Propagated(e) == [out |-> "raise", line |-> 0, text |-> <<>>, exc |-> e]
NoResult == [out |-> "none", line |-> 0, text |-> <<>>, exc |-> "none"]

\* the try block falls off its end without returning (the else branch)
NoReturn == Ok(JNull)

\* the status is not looked at
StatusIgnored(status) == TRUE

\* `response.status_code == 200`
StatusIsSuccess(status) == status = 200

\* the try block once requests.post has produced rep
TryBlock(rep) ==
    IF rep.kind # "response" THEN Raise(rep.kind)
    ELSE IF StatusIsSuccess(rep.status)
         THEN IF rep.json.ok THEN ExtractContent(rep.json.val) ELSE rep.json
    ELSE NoReturn

\* `except requests.RequestException`
CaughtRequestsOnly(e) == e \in {"ConnectionError", "Timeout"}

\* `except Exception`
Caught(e) == e \in ExceptionClasses

\* the keyword chain with the debt check first
FallbackDebtFirst(message) ==
    IF Contains(Lower(message), KW_DEBT) THEN Returned(112, DEBT_TIP)
    ELSE IF Contains(Lower(message), KW_BUDGET) THEN Returned(108, BUDGET_TIP)
    ELSE IF Contains(Lower(message), KW_INVEST) THEN Returned(110, INVEST_TIP)
    ELSE Returned(114, GENERIC_PROMPT)

\* the keyword chain after the try statement
Fallback(message) ==
    IF Contains(Lower(message), KW_BUDGET) THEN Returned(108, BUDGET_TIP)
    ELSE IF Contains(Lower(message), KW_INVEST) THEN Returned(110, INVEST_TIP)
    ELSE IF Contains(Lower(message), KW_DEBT) THEN Returned(112, DEBT_TIP)
    ELSE Returned(114, GENERIC_PROMPT)

\* get_ai_response returning the content only when it is not empty
get_ai_response_nonempty(message, rep) ==
    LET t == TryBlock(rep) IN
    IF t.ok /\ t.val.ty = "str" /\ t.val.s # <<>> THEN Returned(96, t.val.s)
    ELSE IF ~t.ok /\ ~Caught(t.exc) THEN Propagated(t.exc)
    ELSE Fallback(message)

\* get_ai_response(message) from the point where requests.post has produced rep
get_ai_response(message, rep) ==
    LET t == TryBlock(rep) IN
    IF t.ok /\ t.val.ty = "str" THEN Returned(96, t.val.s)
    ELSE IF ~t.ok /\ ~Caught(t.exc) THEN Propagated(t.exc)
    ELSE Fallback(message)

\* os.getenv returns None when GROQ_API_KEY is not set
NoKey == "None"
ApiKeys == {NoKey, "gsk_key"}

\* a health check that looks at the configuration
health_check_deep ==
    IF api_key = NoKey
    THEN [status |-> 503, body |-> "unhealthy"]
    ELSE [status |-> 200, body |-> "healthy"]

\* GET /api/health
health_check == [status |-> 200, body |-> "healthy"]
NoHealth == [status |-> 0, body |-> "none"]

\* the status of the answer to POST /api/chat: ChatResponse(response=...) on a
\* return, the framework's error answer when the handler raises
HttpStatus(res) == IF res.out = "return" THEN 200 ELSE 500

\* --------------------------------------------------------------- inputs

Fragments ==
    { <<"B","u","D","g","E","t">>,
      <<"i","n","v","e","s","t">>,
      <<"D","E","B","T">>,
      <<"b","u","d","g","e">>,
      <<"d","e","b","t","I","N","V","E","S","T">>,
      <<"t">>,
      <<" ">> }

RECURSIVE Concats(_)
Concats(n) ==
    IF n = 0 THEN {<<>>}
    ELSE LET p == Concats(n - 1) IN p \cup {a \o f : a \in p, f \in Fragments}

Messages == Concats(MaxFrags)

Contents ==
    { <<>>,
      <<" ","\n","\t">>,
      <<"o","k">>,
      <<" ","o","k","\n">>,
      <<"\t","a"," ","b"," ">>,
      <<"b","u","d","g","e","t">> }

MalformedData ==
    { JNull,
      JNum(7),
      JStr(<<"o","k">>),
      JList(<<>>),
      JList(<<Completion(JStr(<<"o","k">>))>>),
      JDict(<<>>),
      JDict([error |-> JStr(<<"o","k">>)]),
      JDict([choices |-> JNull]),
      JDict([choices |-> JList(<<>>)]),
      JDict([choices |-> JStr(<<"o","k">>)]),
      JDict([choices |-> JDict([message |-> JDict([content |-> JStr(<<"o","k">>)])])]),
      JDict([choices |-> JList(<<JNull>>)]),
      JDict([choices |-> JList(<<JDict(<<>>)>>)]),
      JDict([choices |-> JList(<<JDict([message |-> JNull])>>)]),
      JDict([choices |-> JList(<<JDict([message |-> JStr(<<"o","k">>)])>>)]),
      JDict([choices |-> JList(<<JDict([message |-> JDict(<<>>)])>>)]),
      JDict([choices |-> JList(<<JDict([message |-> JDict([role |-> JStr(<<"a">>)])])>>)]),
      Completion(JNull),
      Completion(JNum(7)),
      Completion(JList(<<JStr(<<"o","k">>)>>)),
      Completion(JDict([text |-> JStr(<<"o","k">>)])) }

WellFormedData ==
    {Completion(JStr(c)) : c \in Contents}
    \cup
    { JDict([choices |-> JList(<<JDict([message |-> JDict([content |-> JStr(<<"o","k">>)])]),
                                 JDict([message |-> JDict([content |-> JStr(<<"a">>)])])>>)]),
      JDict([id |-> JStr(<<"a">>),
             choices |-> JList(<<JDict([index |-> JNum(0),
                                        message |-> JDict([role |-> JStr(<<"a">>),
                                                           content |-> JStr(<<" ","b">>)])])>>)]) }

\* what requests.post can produce before the timeout
Replies ==
    {Raised("ConnectionError")}
    \cup {Response(200, Raise("JSONDecodeError"))}
    \cup {Response(200, Ok(d)) : d \in MalformedData \cup WellFormedData}
    \cup {Response(s, Ok(Completion(JStr(<<"o","k">>)))) : s \in {201, 401, 500}}
    \cup {Response(s, Raise("JSONDecodeError")) : s \in {429, 503}}

\* the inputs of the interleaved executions
ConcMessages == { <<"D","E","B","T">>, <<"t">> }
ConcReplies ==
    { Raised("ConnectionError"),
      Response(500, Ok(Completion(JStr(<<"o","k">>)))),
      Response(200, Ok(JDict([choices |-> JList(<<>>)]))),
      Response(200, Ok(Completion(JStr(<<" ","o","k","\n">>)))) }

\* -------------------------------------------------------------- actions

Init ==
    /\ api_key \in ApiKeys
    /\ pc = [r \in Req |-> "idle"]
    /\ msg = [r \in Req |-> <<>>]
    /\ wait = [r \in Req |-> 0]
    /\ calls = [r \in Req |-> 0]
    /\ reply = [r \in Req |-> NoReply]
    /\ result = [r \in Req |-> NoResult]
    /\ healthResp = NoHealth

\* POST /api/chat arrives: chat_endpoint calls get_ai_response, which reads the
\* key and, whatever it read, enters requests.post
chat_endpoint(r, m) ==
    /\ pc[r] = "idle"
    /\ msg' = [msg EXCEPT ![r] = m]
    /\ pc' = [pc EXCEPT ![r] = "waiting"]
    /\ calls' = [calls EXCEPT ![r] = @ + 1]
    /\ UNCHANGED <<api_key, wait, reply, result, healthResp>>

\* a second passes while requests.post waits for the remote service
Tick(r) ==
    /\ pc[r] = "waiting"
    /\ wait[r] < TIMEOUT
    /\ wait' = [wait EXCEPT ![r] = @ + 1]
    /\ UNCHANGED <<api_key, pc, msg, calls, reply, result, healthResp>>

\* the call is issued again after a failure
CompleteWithRetry(r, rep) ==
    IF calls[r] < 2 /\ (rep.kind # "response" \/ rep.status # 200)
    THEN /\ calls' = [calls EXCEPT ![r] = @ + 1]
         /\ wait' = [wait EXCEPT ![r] = 0]
         /\ UNCHANGED <<api_key, pc, msg, reply, result, healthResp>>
    ELSE /\ pc' = [pc EXCEPT ![r] = "done"]
         /\ reply' = [reply EXCEPT ![r] = rep]
         /\ result' = [result EXCEPT ![r] = get_ai_response(msg[r], rep)]
         /\ wait' = [wait EXCEPT ![r] = 0]
         /\ UNCHANGED <<api_key, msg, calls, healthResp>>

\* one connection shared by all invocations: an answer that arrives while
\* another invocation is inside requests.post is lost
CompleteSharedConnection(r, rep) ==
    /\ pc' = [pc EXCEPT ![r] = "done"]
    /\ reply' = [reply EXCEPT ![r] = rep]
    /\ result' = [result EXCEPT ![r] =
           IF \E q \in Req \ {r} : pc[q] = "waiting"
           THEN get_ai_response(msg[r], Raised("ConnectionError"))
           ELSE get_ai_response(msg[r], rep)]
    /\ wait' = [wait EXCEPT ![r] = 0]
    /\ UNCHANGED <<api_key, msg, calls, healthResp>>

\* requests.post has produced rep; the rest of get_ai_response runs
Complete(r, rep) ==
    /\ pc' = [pc EXCEPT ![r] = "done"]
    /\ reply' = [reply EXCEPT ![r] = rep]
    /\ result' = [result EXCEPT ![r] = get_ai_response(msg[r], rep)]
    /\ wait' = [wait EXCEPT ![r] = 0]
    /\ UNCHANGED <<api_key, msg, calls, healthResp>>

\* the completion service authenticates the bearer credential: to the header
\* "Bearer None", which the call carries when the key is not set, it answers
\* with an error status, if the transport delivers an answer at all
RemoteCanProduce(key, rep) ==
    key # NoKey \/ rep.kind # "response" \/ rep.status >= 400

\* the remote service answers, or the transport fails, within the wait
PostReturns(r, rep) ==
    /\ pc[r] = "waiting"
    /\ wait[r] < TIMEOUT
    /\ RemoteCanProduce(api_key, rep)
    /\ Complete(r, rep)

\* requests.post without a timeout
PostNeverTimesOut(r) ==
    /\ FALSE
    /\ UNCHANGED vars

\* the wait of requests.post expires
PostTimesOut(r) ==
    /\ pc[r] = "waiting"
    /\ wait[r] = TIMEOUT
    /\ Complete(r, Raised("Timeout"))

\* chat_endpoint returns; the answer leaves the server
SendResponse(r) ==
    /\ pc[r] = "done"
    /\ pc' = [pc EXCEPT ![r] = "idle"]
    /\ msg' = [msg EXCEPT ![r] = <<>>]
    /\ calls' = [calls EXCEPT ![r] = 0]
    /\ reply' = [reply EXCEPT ![r] = NoReply]
    /\ result' = [result EXCEPT ![r] = NoResult]
    /\ UNCHANGED <<api_key, wait, healthResp>>

\* GET /api/health is served
HealthCheck ==
    /\ healthResp' = health_check
    /\ UNCHANGED <<api_key, pc, msg, wait, calls, reply, result>>

\* chat requests served in any interleaving
Next ==
    \/ \E r \in Req, m \in ConcMessages : chat_endpoint(r, m)
    \/ \E r \in Req : Tick(r)
    \/ \E r \in Req, rep \in ConcReplies : PostReturns(r, rep)
    \/ \E r \in Req : PostTimesOut(r)
    \/ \E r \in Req : SendResponse(r)
    \/ HealthCheck

Spec == Init /\ [][Next]_vars

\* one chat request at a time (the request slots are interchangeable: the first
\* one serves them all), over the full input sets
NextSeq ==
    \/ \E m \in Messages : chat_endpoint(1, m)
    \/ Tick(1)
    \/ \E rep \in Replies : PostReturns(1, rep)
    \/ PostTimesOut(1)
    \/ SendResponse(1)

SpecSeq == Init /\ [][NextSeq]_vars

\* the message of the executions checked for termination
LiveMessages == { <<"D","E","B","T">> }

\* the chat requests of Next alone
NextChat ==
    \/ \E r \in Req, m \in LiveMessages : chat_endpoint(r, m)
    \/ \E r \in Req : Tick(r)
    \/ \E r \in Req, rep \in ConcReplies : PostReturns(r, rep)
    \/ \E r \in Req : PostTimesOut(r)
    \/ \E r \in Req : SendResponse(r)

\* interleaved chat requests with time passing and the wait of requests.post
\* expiring; nothing obliges the remote service to answer
FairSpec ==
    /\ Init
    /\ [][NextChat]_vars
    /\ \A r \in Req : WF_vars(Tick(r)) /\ WF_vars(PostTimesOut(r))

\* ------------------------------------------------- vocabulary of the claims

Done(r) == pc[r] = "done"

\* the letter c in either case
CaseVariants(c) ==
    {c} \cup {UpperAlpha[i] : i \in {j \in 1..Len(LowerAlpha) : LowerAlpha[j] = c}}

\* m contains the keyword kw, in any case
Mentions(m, kw) ==
    \E i \in 0..(Len(m) - Len(kw)) :
        \A j \in 1..Len(kw) : m[i + j] \in CaseVariants(kw[j])

\* the fallback text the specification selects for m: budget > invest > debt > generic
ExpectedFallback(m) ==
    IF Mentions(m, KW_BUDGET) THEN BUDGET_TIP
    ELSE IF Mentions(m, KW_INVEST) THEN INVEST_TIP
    ELSE IF Mentions(m, KW_DEBT) THEN DEBT_TIP
    ELSE GENERIC_PROMPT

FixedTexts == {BUDGET_TIP, INVEST_TIP, DEBT_TIP, GENERIC_PROMPT}

IsDictWith(v, k) == v.ty = "dict" /\ k \in DOMAIN v.m

\* the body is {"choices": [{"message": {"content": <text>}}, ...], ...}
WellFormed(rep) ==
    /\ rep.kind = "response"
    /\ rep.json.ok
    /\ IsDictWith(rep.json.val, "choices")
    /\ LET ch == rep.json.val.m["choices"] IN
       /\ ch.ty = "list"
       /\ Len(ch.items) > 0
       /\ IsDictWith(ch.items[1], "message")
       /\ IsDictWith(ch.items[1].m["message"], "content")
       /\ ch.items[1].m["message"].m["content"].ty = "str"

\* the content of the first completion choice of a well-formed body
FirstContent(rep) == rep.json.val.m["choices"].items[1].m["message"].m["content"].s

\* the remote call succeeded: status 200 and a well-formed body
RemoteSucceeded(rep) == rep.kind = "response" /\ rep.status = 200 /\ WellFormed(rep)

\* t is c without its leading and trailing whitespace
Trimmed(c, t) ==
    \E i \in 0..Len(c) : \E j \in i..Len(c) :
        /\ t = SubSeq(c, i + 1, j)
        /\ \A k \in (1..i) \cup ((j + 1)..Len(c)) : c[k] \in Whitespace
        /\ t # <<>> => (t[1] \notin Whitespace /\ t[Len(t)] \notin Whitespace)

AllWhitespace(c) == \A k \in 1..Len(c) : c[k] \in Whitespace

\* ----------------------------------------------------------------- claims

C3_SuccessReturnsTrimmedContent ==
    \A r \in Req : (Done(r) /\ RemoteSucceeded(reply[r])) =>
        /\ result[r].out = "return"
        /\ result[r].line = 96
        /\ Trimmed(FirstContent(reply[r]), result[r].text)

C3_Witness ==
    \E r \in Req :
        /\ Done(r)
        /\ RemoteSucceeded(reply[r])
        /\ Mentions(msg[r], KW_BUDGET)
        /\ FirstContent(reply[r]) = <<"\t","a"," ","b"," ">>
        /\ result[r].text = <<"a"," ","b">>

\* C4: with the credential absent, respond issues no outbound call to the
\* completion endpoint, and the result is the keyword-selected fallback.
C4_NoCallWithoutCredential ==
    api_key = NoKey =>
        \A r \in Req :
            /\ calls[r] = 0
            /\ Done(r) => result[r].text = ExpectedFallback(msg[r])

\* C5: an invocation of respond issues at most one outbound call: after the
\* call has failed no second call is made before the response is returned.
C5_AtMostOneCall ==
    \A r \in Req : calls[r] <= 1

C5_Witness ==
    \E r \in Req : Done(r) /\ reply[r] = Raised("Timeout") /\ calls[r] = 1

C7_InvocationsIndependent ==
    \A r1, r2 \in Req :
        (Done(r1) /\ Done(r2) /\ msg[r1] = msg[r2] /\ reply[r1] = reply[r2])
            => result[r1] = result[r2]

C7_Witness ==
    \E r1, r2 \in Req :
        /\ r1 # r2
        /\ Done(r1) /\ Done(r2)
        /\ msg[r1] = msg[r2] /\ reply[r1] = reply[r2]
        /\ RemoteSucceeded(reply[r1])
        /\ result[r1].line = 96

\* C8: GET /api/health answers {status: "healthy"} with a success status in
\* every reachable state.
C8_HealthAlwaysHealthy ==
    healthResp # NoHealth => (healthResp.status = 200 /\ healthResp.body = "healthy")

C8_Witness ==
    /\ healthResp.status = 200
    /\ api_key = NoKey
    /\ \E r \in Req : Done(r) /\ reply[r].kind = "ConnectionError"
    /\ \E r \in Req : pc[r] = "waiting"

\* C9: the success path is taken only on a success status with a well-formed
\* payload: any other status, and a malformed payload on a success status,
\* yield the keyword fallback, not an error and not a partial result.
C9_SuccessOnlyWhenWellFormed ==
    \A r \in Req : Done(r) =>
        /\ result[r].line = 96 => (reply[r].status = 200 /\ WellFormed(reply[r]))
        /\ (reply[r].kind = "response" /\ (reply[r].status # 200 \/ ~WellFormed(reply[r])))
              => (result[r].out = "return" /\ result[r].text = ExpectedFallback(msg[r]))

C9_Witness ==
    \E r \in Req :
        /\ Done(r)
        /\ reply[r].status = 500
        /\ WellFormed(reply[r])
        /\ result[r].text = DEBT_TIP

\* C10: a successful reply whose first content is empty or only whitespace makes
\* respond return the empty string, not the keyword fallback.
C10_EmptyContentReturned ==
    \A r \in Req :
        (Done(r) /\ RemoteSucceeded(reply[r]) /\ AllWhitespace(FirstContent(reply[r])))
            => (result[r].out = "return" /\ result[r].line = 96 /\ result[r].text = <<>>)

C10_Witness ==
    \E r \in Req :
        /\ Done(r)
        /\ RemoteSucceeded(reply[r])
        /\ FirstContent(reply[r]) = <<>>
        /\ Mentions(msg[r], KW_DEBT)
        /\ result[r].text = <<>>

====
